---- MODULE Spec2Model ----
(***************************************************************************)
(* Model of PDF2JPG.py: the batch converter that walks an input tree,      *)
(* converts every .pdf/.png/.html file to JPEG, expands .zip archives into *)
(* the output tree and recurses into them, and renames every processed     *)
(* source to <base>_processed<ext>.                                        *)
(*                                                                         *)
(* A path is a sequence of components, the last one being the file name;   *)
(* file names are real strings, so the "_processed" convention is modelled *)
(* by string concatenation and suffix tests, as the code does it.          *)
(***************************************************************************)
EXTENDS Integers, Sequences, FiniteSets, TLC

VARIABLES fs, dirs, tasks, calls, run, escaped, tree, pool, image, settings

vars == <<fs, dirs, tasks, calls, run, escaped, tree, pool, image, settings>>

\* ------------------------------------------------------------------ bounds
\* Largest number of worker threads of one ThreadPoolExecutor (the code takes
\* the library default, min(32, cpu_count + 4), line 237).
Workers == 2
\* Number of consecutive runs of the batch over the same directories.
MaxRuns == 2
\* Largest page count of a PDF of the input trees.
MaxPages == 2
\* Largest width or height of an image handed to resize_image, and largest
\* max_width or max_height.
MaxDim == 4
\* How far the integers of settings.ini go beyond the ends of a valid range.
MaxOver == 1
\* Deepest chain of nested process_files_in_directory calls that is followed.
MaxDepth == 3

\* ------------------------------------------------------- program constants
DefaultDpi == 300
DefaultQuality == 95
DefaultMaxWidth == 1920
DefaultMaxHeight == 1080
\* The default of html_to_jpg's max_height parameter.
HtmlDefaultMaxHeight == 1080

\* ------------------------------------------------------------ path helpers
InputRoot == <<"in">>
OutputRoot == <<"out">>
Cwd == <<"cwd">>

EndsWith(s, suf) ==
    /\ Len(s) >= Len(suf)
    /\ SubSeq(s, Len(s) - Len(suf) + 1, Len(s)) = suf

Contains(s, sub) ==
    \E i \in 1..(Len(s) - Len(sub) + 1) : SubSeq(s, i, i + Len(sub) - 1) = sub

\* os.path.splitext: split at the last dot that is not the first character.
SplitExt(name) ==
    LET dots == {i \in 2..Len(name) : SubSeq(name, i, i) = "."}
    IN  IF dots = {} THEN <<name, "">>
        ELSE LET d == CHOOSE i \in dots : \A j \in dots : j <= i
             IN  <<SubSeq(name, 1, d - 1), SubSeq(name, d, Len(name))>>

\* os.path.basename / os.path.split of a path.
BaseName(p) == p[Len(p)]
DirName(p) == SubSeq(p, 1, Len(p) - 1)

\* os.path.splitext(os.path.basename(path))[0]
StemOf(p) == SplitExt(BaseName(p))[1]

IsPrefix(d, p) == Len(d) <= Len(p) /\ SubSeq(p, 1, Len(d)) = d

\* os.path.relpath(root, input_dir) for root at or below input_dir.
RelPath(root, input_dir) ==
    IF root = input_dir THEN <<".">>
    ELSE SubSeq(root, Len(input_dir) + 1, Len(root))

\* The file system resolves "." and the empty component of os.path.join.
Norm(p) == SelectSeq(p, LAMBDA x : x # "." /\ x # "")

\* ------------------------------------------------------------- file system
\* fs maps the path of every regular file to its content; dirs is the set of
\* directories. A content is a record: health says how the external
\* converters and the operating system react to the file, pages is the page
\* count of a PDF, entries the members of an archive.
Jpg == [health |-> "jpg", pages |-> 0, entries |-> {}]

Exists(p) == p \in dirs \/ p \in DOMAIN fs

Put(f, p, v) == [q \in (DOMAIN f) \cup {p} |-> IF q = p THEN v ELSE f[q]]

Del(f, p) == [q \in (DOMAIN f) \ {p} |-> f[q]]

Ancestors(p) == {SubSeq(p, 1, k) : k \in 1..Len(p)}

\* line 53: output_path = os.path.join(output_dir, relative_dir, base_name)
OutputPath(output_dir, relative_dir, base_name) ==
    Norm(output_dir \o relative_dir \o <<base_name>>)

\* rename_processed_file, lines 125-136: the new path, or <<>> for an
\* extension it does not recognise.
ProcessedPath(file_path) ==
    LET parts == SplitExt(BaseName(file_path))
    IN  IF parts[2] \in {".pdf", ".png", ".html", ".zip"}
        THEN DirName(file_path) \o <<parts[1] \o "_processed" \o parts[2]>>
        ELSE <<>>

\* os.rename at line 139 succeeds when the source exists and may be renamed.
CanRename(f, file_path) ==
    /\ file_path \in DOMAIN f
    /\ f[file_path].health # "norename"

\* rename_processed_file, lines 124-142: the file system after the call; a
\* failing os.rename is logged and swallowed.
RenameProcessed(f, file_path) ==
    IF ProcessedPath(file_path) = <<>> THEN f
    ELSE IF CanRename(f, file_path)
         THEN Put(Del(f, file_path), ProcessedPath(file_path), f[file_path])
         ELSE f

\* Whether rename_processed_file renames the file.
Renames(f, file_path) ==
    ProcessedPath(file_path) # <<>> /\ CanRename(f, file_path)

\* zip_ref.extractall(zip_output_dir), line 187.
ExtractAll(f, zip_output_dir, entries) ==
    LET targets == {Norm(zip_output_dir \o e.rel) : e \in entries}
        Member(q) == CHOOSE e \in entries : Norm(zip_output_dir \o e.rel) = q
    IN  [q \in (DOMAIN f) \cup targets |->
            IF q \in targets
            THEN [health |-> Member(q).health, pages |-> Member(q).pages,
                  entries |-> Member(q).entries]
            ELSE f[q]]

ExtractDirs(d, zip_output_dir, entries) ==
    d \cup UNION {Ancestors(DirName(Norm(zip_output_dir \o e.rel))) : e \in entries}

\* --------------------------------------------------------------- discovery
\* The batch configuration read by __main__, lines 271-289 (the defaults).
BatchConfig ==
    [dpi |-> DefaultDpi, quality |-> DefaultQuality,
     max_width |-> DefaultMaxWidth, max_height |-> DefaultMaxHeight]

\* Unprocessed without its test of the "_processed" suffix.
UnprocessedNoMarkTest(file, ext) == EndsWith(file, ext)

\* The extension tests of lines 216, 220, 224 and 228.
Unprocessed(file, ext) ==
    EndsWith(file, ext) /\ ~EndsWith(file, "_processed" \o ext)

Classify(file) ==
    IF Unprocessed(file, ".pdf") THEN "pdf_to_jpg"
    ELSE IF Unprocessed(file, ".png") THEN "png_to_jpg"
    ELSE IF Unprocessed(file, ".html") THEN "html_to_jpg"
    ELSE IF Unprocessed(file, ".zip") THEN "process_zip_file"
    ELSE "skip"

\* line 211: '__MACOSX' in file_path
InMacosx(file_path) ==
    \E i \in 1..Len(file_path) : Contains(file_path[i], "__MACOSX")

\* The parameters the callee receives from the positional tuples of lines
\* 217, 221, 225 and 229, bound to the signatures of lines 145, 75, 91 and
\* 181. png_to_jpg has no dpi parameter (0 here); html_to_jpg is handed
\* (quality, max_width, max_height) for (dpi, quality, max_width) and keeps
\* its default max_height.
BoundArgs(fn, cfg) ==
    IF fn = "png_to_jpg"
    THEN [dpi |-> 0, quality |-> cfg.quality,
          max_width |-> cfg.max_width, max_height |-> cfg.max_height]
    ELSE IF fn = "html_to_jpg"
    THEN [dpi |-> cfg.quality, quality |-> cfg.max_width,
          max_width |-> cfg.max_height, max_height |-> HtmlDefaultMaxHeight]
    ELSE cfg

\* The files os.walk(input_dir) yields, line 205.
Walked(f, input_dir) ==
    {p \in DOMAIN f : IsPrefix(input_dir, p) /\ Len(p) > Len(input_dir)}

\* The files that become a task, lines 206-229.
Discovered(f, input_dir) ==
    {p \in Walked(f, input_dir) :
        ~InMacosx(p) /\ Classify(BaseName(p)) # "skip"}

\* os.walk lists a directory in an order of its own; one fixed order here.
RECURSIVE SeqOf(_)
SeqOf(S) ==
    IF S = {} THEN <<>>
    ELSE LET x == CHOOSE y \in S : TRUE IN <<x>> \o SeqOf(S \ {x})

NoDoc == [health |-> "none", pages |-> 0, entries |-> {}]

\* One entry of file_tasks, submitted to the executor at line 238.
NewTask(file_path, input_dir, output_dir, cfg, c, r) ==
    LET fn == Classify(BaseName(file_path))
    IN  [fn |-> fn,
         path |-> file_path,
         output_dir |-> output_dir,
         rel |-> IF fn = "process_zip_file" THEN <<"">>
                 ELSE RelPath(DirName(file_path), input_dir),
         args |-> BoundArgs(fn, cfg),
         pc |-> "queued",
         result |-> "pending",
         call |-> c,
         run |-> r,
         doc |-> NoDoc,
         outp |-> <<>>,
         page |-> 0,
         arts |-> {},
         renamed |-> FALSE,
         child |-> 0]

\* file_tasks of lines 204-229 for a call numbered c.
FileTasks(f, input_dir, output_dir, cfg, c, r) ==
    LET paths == SeqOf(Discovered(f, input_dir))
    IN  [i \in 1..Len(paths) |->
            NewTask(paths[i], input_dir, output_dir, cfg, c, r)]

\* The frame of one process_files_in_directory call, lines 198-251.
NewCall(f, d, input_dir, output_dir, cfg, parent, r, first) ==
    [input_dir |-> input_dir,
     output_dir |-> output_dir,
     cfg |-> cfg,
     first |-> first,
     total |-> IF input_dir \in d
               THEN Cardinality(Discovered(f, input_dir)) ELSE 0,
     idx |-> 0,
     succ |-> 0,
     fail |-> 0,
     pc |-> IF input_dir \in d THEN "collect" ELSE "invalid",
     parent |-> parent,
     run |-> r]

TasksOf(c) == {calls[c].first + i : i \in 0..(calls[c].total - 1)}

\* The tasks holding a worker if all calls shared one executor.
RunningShared(c) ==
    {t \in 1..Len(tasks) : tasks[t].pc \notin {"queued", "done"}}

Running(c) == {t \in TasksOf(c) : tasks[t].pc \notin {"queued", "done"}}

\* ------------------------------------------------------------- input trees
File(h) == [health |-> h, pages |-> 0, entries |-> {}]
Pdf(h, n) == [health |-> h, pages |-> n, entries |-> {}]
Zip(h, es) == [health |-> h, pages |-> 0, entries |-> es]
Entry(rel, c) ==
    [rel |-> rel, health |-> c.health, pages |-> c.pages, entries |-> c.entries]

MkTree(S) == [p \in {x[1] : x \in S} |-> (CHOOSE x \in S : x[1] = p)[2]]

PdfHealth == {"ok", "corrupt", "badpage", "norename"}
PngHealth == {"ok", "corrupt", "nowrite", "norename"}
HtmlHealth == {"ok", "corrupt", "norename"}
ZipHealth == {"ok", "corrupt", "badextract", "norename"}

\* a.pdf, b.png and c.zip holding d.html, with at most one unhealthy file.
ScenarioTrees ==
    {MkTree({<<InputRoot \o <<"a.pdf">>, Pdf(h[1], MaxPages)>>,
             <<InputRoot \o <<"b.png">>, File(h[2])>>,
             <<InputRoot \o <<"c.zip">>,
               Zip(h[3], {Entry(<<"d.html">>, File(h[4]))})>>}) :
        h \in {g \in PdfHealth \X PngHealth \X ZipHealth \X HtmlHealth :
                 Cardinality({i \in 1..4 : g[i] # "ok"}) <= 1}}

\* Two sources with the same stem in one directory: one output directory.
SameStemTrees ==
    {MkTree({<<InputRoot \o <<"a.pdf">>, Pdf("ok", n)>>,
             <<InputRoot \o <<"a.png">>, File("ok")>>}) : n \in 1..MaxPages}

\* Two archives with the same base name in different subdirectories.
SameZipTrees ==
    {MkTree({<<InputRoot \o <<"s1", "c.zip">>,
               Zip("ok", {Entry(<<"d.html">>, File(h))})>>,
             <<InputRoot \o <<"s2", "c.zip">>,
               Zip("ok", {Entry(<<"e.png">>, File("ok"))})>>}) :
        h \in {"ok", "corrupt"}}

\* A nested archive, members in subdirectories, a __MACOSX member, a source
\* that already carries the mark and a source in a subdirectory.
NestedTrees ==
    {MkTree({<<InputRoot \o <<"c.zip">>,
               Zip("ok", {Entry(<<"r", "f.png">>, File(h)),
                          Entry(<<"__MACOSX", "g.png">>, File("ok")),
                          Entry(<<"e.zip">>,
                                Zip("ok", {Entry(<<"h.pdf">>, Pdf("ok", 1))}))})>>,
             <<InputRoot \o <<"z_processed.pdf">>, Pdf("ok", 1)>>,
             <<InputRoot \o <<"s", "k.html">>, File("ok")>>}) :
        h \in {"ok", "nowrite"}}

\* The trees in which no two tasks share an output or expansion directory.
DistinctTrees == ScenarioTrees \cup NestedTrees

Trees == DistinctTrees \cup SameStemTrees \cup SameZipTrees

\* An archive that holds an archive of its own base name.
SelfNestedTrees ==
    {MkTree({<<InputRoot \o <<"c.zip">>,
               Zip("ok", {Entry(<<"c.zip">>,
                                Zip("ok", {Entry(<<"d.png">>, File("ok"))}))})>>})}

\* ------------------------------------------------------------ resize_image
\* resize_image(image, max_width, max_height), lines 59-72, on the size of
\* the image. aspect_ratio is original_width / original_height, so
\* int(new_width / aspect_ratio) is the truncated quotient
\* new_width * original_height / original_width and
\* int(aspect_ratio * new_height) is the truncated quotient
\* original_width * new_height / original_height; for sizes up to MaxDim the
\* double-precision results of lines 65 and 70 are these integers. Both tests
\* read the ORIGINAL size, and the second resize starts again from it.
\* Image.resize raises ValueError for a size with a dimension below one.
Returned(size) == [state |-> "returned", size |-> size]
Raised == [state |-> "raised", size |-> <<0, 0>>]
Pending == [state |-> "pending", size |-> <<0, 0>>]

Resizable(size) == size[1] >= 1 /\ size[2] >= 1

resize_image(size, max_width, max_height) ==
    LET original_width == size[1]
        original_height == size[2]
        by_width == <<max_width,
                      (max_width * original_height) \div original_width>>
        by_height == <<(original_width * max_height) \div original_height,
                       max_height>>
    IN  IF original_width > max_width /\ ~Resizable(by_width) THEN Raised
        ELSE IF original_height > max_height
             THEN IF Resizable(by_height) THEN Returned(by_height) ELSE Raised
        ELSE IF original_width > max_width THEN Returned(by_width)
        ELSE Returned(size)

\* No image is being resized: the value of image in the batch.
NoImage ==
    [original |-> <<0, 0>>, max_width |-> 0, max_height |-> 0, result |-> Pending]

\* An image of every size up to MaxDim, handed to resize_image with every
\* pair of limits up to MaxDim (the calls of lines 83 and 168).
Images ==
    {[original |-> <<w, h>>, max_width |-> mw, max_height |-> mh,
      result |-> Pending] :
        w \in 1..MaxDim, h \in 1..MaxDim, mw \in 1..MaxDim, mh \in 1..MaxDim}

\* ------------------------------------------------------------ settings.ini
\* What settings.ini holds for a numeric key: nothing, text that int()
\* rejects, or an integer.
Missing == [kind |-> "missing", value |-> 0]
Text == [kind |-> "text", value |-> 0]
Number(n) == [kind |-> "int", value |-> n]

\* config.getint('Settings', key, fallback=default) inside try/except
\* ValueError, lines 271-289: a missing key yields the fallback, text makes
\* getint raise ValueError and the handler assigns the default, and an
\* integer is taken as it is.
getint(raw, default) ==
    IF raw.kind = "int" THEN raw.value ELSE default

\* The four assignments of lines 271-289.
ReadConfig(raw) ==
    [dpi |-> getint(raw.dpi, DefaultDpi),
     quality |-> getint(raw.quality, DefaultQuality),
     max_width |-> getint(raw.max_width, DefaultMaxWidth),
     max_height |-> getint(raw.max_height, DefaultMaxHeight)]

NoNumbers ==
    [dpi |-> Missing, quality |-> Missing, max_width |-> Missing,
     max_height |-> Missing]

\* A settings.ini without numeric keys, read: the settings of the batch.
DefaultSettings == [raw |-> NoNumbers, read |-> TRUE, cfg |-> ReadConfig(NoNumbers)]

\* Integers around the ends of the valid ranges.
QualityValues == {Number(n) : n \in {0 - MaxOver, 0, 1, 100, 100 + MaxOver}}
SizeValues == {Number(n) : n \in (0 - MaxOver)..MaxOver}

SettingsFiles ==
    {[raw |-> [dpi |-> d, quality |-> q, max_width |-> mw, max_height |-> mh],
      read |-> FALSE, cfg |-> ReadConfig(NoNumbers)] :
        d \in {Missing, Text, Number(DefaultDpi)},
        q \in {Missing, Text} \cup QualityValues,
        mw \in {Missing, Text} \cup SizeValues,
        mh \in {Missing, Text} \cup SizeValues}

DirsOf(f) ==
    {InputRoot, OutputRoot, Cwd} \cup UNION {Ancestors(DirName(p)) : p \in DOMAIN f}

\* The state when __main__ is about to make its first call, line 312.
InitOn(T) ==
    /\ fs \in T
    /\ dirs = DirsOf(fs)
    /\ tasks = <<>>
    /\ calls = <<>>
    /\ run = 0
    /\ escaped = FALSE
    /\ tree = fs
    /\ pool \in 1..Workers
    /\ image = NoImage
    /\ settings = DefaultSettings

Init == InitOn(Trees)

InitDistinct == InitOn(DistinctTrees)

InitDeep == InitOn(DistinctTrees \cup SelfNestedTrees)

\* ------------------------------------------------------------------ tasks
\* What a converter returns when its own handler catches an exception:
\* lines 153 and 174 (pdf_to_jpg), 121 (html_to_jpg); png_to_jpg (line 89)
\* and process_zip_file (line 195) fall off their end and return None.
OnError(fn) ==
    IF fn \in {"pdf_to_jpg", "html_to_jpg"} THEN "False" ELSE "None"

\* What a converter returns after its rename_processed_file call: lines 178
\* and 118; png_to_jpg and process_zip_file have no return statement.
OnSuccess(fn) ==
    IF fn \in {"pdf_to_jpg", "html_to_jpg"} THEN "True" ELSE "None"

\* An exception raised by create_output_directory: pdf_to_jpg calls it
\* outside its try blocks (line 157), the others inside (80, 96, 186).
OnMkdirError(fn) ==
    IF fn = "pdf_to_jpg" THEN "raise" ELSE OnError(fn)

Ret(t, res) == [tasks[t] EXCEPT !.pc = "done", !.result = res]

Readable(f, p) == p \in DOMAIN f /\ f[p].health # "corrupt"

\* The first statement of each converter that the model gives a step.
FirstPc(fn) == IF fn = "html_to_jpg" THEN "check" ELSE "open"

\* The step after create_output_directory, with png_to_jpg marking its source
\* before it saves the image.
WorkPcMarkFirst(fn) ==
    IF fn = "pdf_to_jpg" THEN "page"
    ELSE IF fn = "png_to_jpg" THEN "rename"
    ELSE IF fn = "html_to_jpg" THEN "shot"
    ELSE "extract"

\* The step after create_output_directory.
WorkPc(fn) ==
    IF fn = "pdf_to_jpg" THEN "page"
    ELSE IF fn = "png_to_jpg" THEN "save"
    ELSE IF fn = "html_to_jpg" THEN "shot"
    ELSE "extract"

\* A worker thread of the call's executor takes the oldest queued task.
Start(t) ==
    /\ tasks[t].pc = "queued"
    /\ Cardinality(Running(tasks[t].call)) < pool
    /\ \A u \in TasksOf(tasks[t].call) : u < t => tasks[u].pc # "queued"
    /\ tasks' = [tasks EXCEPT ![t].pc = FirstPc(tasks[t].fn)]
    /\ UNCHANGED <<fs, dirs, calls, run, escaped, tree, pool, image, settings>>

\* fitz.open(pdf_path), lines 147-153.
PdfOpen(t) ==
    /\ tasks[t].fn = "pdf_to_jpg" /\ tasks[t].pc = "open"
    /\ tasks' = [tasks EXCEPT ![t] =
            IF Readable(fs, tasks[t].path)
            THEN [tasks[t] EXCEPT !.pc = "check", !.doc = fs[tasks[t].path]]
            ELSE Ret(t, "False")]
    /\ UNCHANGED <<fs, dirs, calls, run, escaped, tree, pool, image, settings>>

\* Image.open(png_path), line 78.
PngOpen(t) ==
    /\ tasks[t].fn = "png_to_jpg" /\ tasks[t].pc = "open"
    /\ tasks' = [tasks EXCEPT ![t] =
            IF Readable(fs, tasks[t].path)
            THEN [tasks[t] EXCEPT !.pc = "check", !.doc = fs[tasks[t].path]]
            ELSE Ret(t, OnError("png_to_jpg"))]
    /\ UNCHANGED <<fs, dirs, calls, run, escaped, tree, pool, image, settings>>

\* zipfile.ZipFile(zip_path, 'r'), line 184.
ZipOpen(t) ==
    /\ tasks[t].fn = "process_zip_file" /\ tasks[t].pc = "open"
    /\ tasks' = [tasks EXCEPT ![t] =
            IF Readable(fs, tasks[t].path)
            THEN [tasks[t] EXCEPT !.pc = "check", !.doc = fs[tasks[t].path]]
            ELSE Ret(t, OnError("process_zip_file"))]
    /\ UNCHANGED <<fs, dirs, calls, run, escaped, tree, pool, image, settings>>

\* create_output_directory, lines 53-54: the path and the existence test.
MkdirCheck(t) ==
    /\ tasks[t].pc = "check"
    /\ LET output_path == OutputPath(tasks[t].output_dir, tasks[t].rel,
                                     StemOf(tasks[t].path))
       IN  tasks' = [tasks EXCEPT ![t].outp = output_path,
                                  ![t].pc = IF Exists(output_path)
                                            THEN WorkPc(tasks[t].fn)
                                            ELSE "make"]
    /\ UNCHANGED <<fs, dirs, calls, run, escaped, tree, pool, image, settings>>

\* create_output_directory, line 55: os.makedirs raises FileExistsError when
\* the directory appeared since the test.
MkdirMake(t) ==
    /\ tasks[t].pc = "make"
    /\ IF Exists(tasks[t].outp)
       THEN /\ tasks' = [tasks EXCEPT ![t] = Ret(t, OnMkdirError(tasks[t].fn))]
            /\ dirs' = dirs
       ELSE /\ tasks' = [tasks EXCEPT ![t].pc = WorkPc(tasks[t].fn)]
            /\ dirs' = dirs \cup Ancestors(tasks[t].outp)
    /\ UNCHANGED <<fs, calls, run, escaped, tree, pool, image, settings>>

\* One iteration of the page loop, lines 160-174, or its exit (line 176).
PdfPage(t) ==
    /\ tasks[t].fn = "pdf_to_jpg" /\ tasks[t].pc = "page"
    /\ LET n == tasks[t].page + 1
           jpeg_path == tasks[t].outp \o
               <<StemOf(tasks[t].path) \o "_page_" \o ToString(n) \o ".jpg">>
       IN  IF tasks[t].page = tasks[t].doc.pages
           THEN /\ tasks' = [tasks EXCEPT ![t].pc = "rename"]
                /\ fs' = fs
           ELSE IF tasks[t].doc.health = "badpage" /\ n = tasks[t].doc.pages
           THEN /\ tasks' = [tasks EXCEPT ![t] = Ret(t, "False")]
                /\ fs' = fs
           ELSE /\ tasks' = [tasks EXCEPT ![t].page = n,
                                          ![t].arts = @ \cup {jpeg_path}]
                /\ fs' = Put(fs, jpeg_path, Jpg)
    /\ UNCHANGED <<dirs, calls, run, escaped, tree, pool, image, settings>>

\* resize, convert and image.save(jpeg_path), lines 81-85.
PngSave(t) ==
    /\ tasks[t].fn = "png_to_jpg" /\ tasks[t].pc = "save"
    /\ LET jpeg_path == tasks[t].outp \o <<StemOf(tasks[t].path) \o ".jpg">>
       IN  IF tasks[t].doc.health = "nowrite"
           THEN /\ tasks' = [tasks EXCEPT ![t] = Ret(t, OnError("png_to_jpg"))]
                /\ fs' = fs
           ELSE /\ tasks' = [tasks EXCEPT ![t].pc = "rename",
                                          ![t].arts = @ \cup {jpeg_path}]
                /\ fs' = Put(fs, jpeg_path, Jpg)
    /\ UNCHANGED <<dirs, calls, run, escaped, tree, pool, image, settings>>

\* hti.screenshot(...), lines 102-106: the image lands in the working
\* directory under the bare file name; a page that cannot be rendered leaves
\* no image and raises nothing.
HtmlShot(t) ==
    /\ tasks[t].fn = "html_to_jpg" /\ tasks[t].pc = "shot"
    /\ LET jpg_file_name == Cwd \o <<StemOf(tasks[t].path) \o ".jpg">>
       IN  fs' = IF Readable(fs, tasks[t].path)
                 THEN Put(fs, jpg_file_name, Jpg) ELSE fs
    /\ tasks' = [tasks EXCEPT ![t].pc = "move"]
    /\ UNCHANGED <<dirs, calls, run, escaped, tree, pool, image, settings>>

\* shutil.move(jpg_file_name, full_jpg_path), lines 108-109.
HtmlMove(t) ==
    /\ tasks[t].fn = "html_to_jpg" /\ tasks[t].pc = "move"
    /\ LET jpg_file_name == Cwd \o <<StemOf(tasks[t].path) \o ".jpg">>
           full_jpg_path == tasks[t].outp \o <<StemOf(tasks[t].path) \o ".jpg">>
       IN  IF jpg_file_name \in DOMAIN fs
           THEN /\ fs' = Put(Del(fs, jpg_file_name), full_jpg_path,
                             fs[jpg_file_name])
                /\ tasks' = [tasks EXCEPT ![t].pc = "resave",
                                          ![t].arts = @ \cup {full_jpg_path}]
           ELSE /\ fs' = fs
                /\ tasks' = [tasks EXCEPT ![t] = Ret(t, OnError("html_to_jpg"))]
    /\ UNCHANGED <<dirs, calls, run, escaped, tree, pool, image, settings>>

\* Image.open(full_jpg_path) and img.save(...), lines 112-113.
HtmlResave(t) ==
    /\ tasks[t].fn = "html_to_jpg" /\ tasks[t].pc = "resave"
    /\ LET full_jpg_path == tasks[t].outp \o <<StemOf(tasks[t].path) \o ".jpg">>
       IN  IF full_jpg_path \in DOMAIN fs
           THEN /\ fs' = Put(fs, full_jpg_path, Jpg)
                /\ tasks' = [tasks EXCEPT ![t].pc = "rename"]
           ELSE /\ fs' = fs
                /\ tasks' = [tasks EXCEPT ![t] = Ret(t, OnError("html_to_jpg"))]
    /\ UNCHANGED <<dirs, calls, run, escaped, tree, pool, image, settings>>

\* zip_ref.extractall(zip_output_dir), line 187.
ZipExtract(t) ==
    /\ tasks[t].fn = "process_zip_file" /\ tasks[t].pc = "extract"
    /\ IF tasks[t].doc.health = "badextract"
       THEN /\ tasks' = [tasks EXCEPT ![t] = Ret(t, OnError("process_zip_file"))]
            /\ UNCHANGED <<fs, dirs>>
       ELSE /\ tasks' = [tasks EXCEPT ![t].pc = "recurse"]
            /\ fs' = ExtractAll(fs, tasks[t].outp, tasks[t].doc.entries)
            /\ dirs' = ExtractDirs(dirs, tasks[t].outp, tasks[t].doc.entries)
    /\ UNCHANGED <<calls, run, escaped, tree, pool, image, settings>>

\* How many process_files_in_directory calls are on the stack of call c,
\* c included: line 312 makes the first, line 190 each further one.
RECURSIVE Depth(_)
Depth(c) ==
    IF calls[c].parent = 0 THEN 1 ELSE 1 + Depth(tasks[calls[c].parent].call)

\* The nested process_files_in_directory(zip_output_dir, output_dir, ...)
\* call of line 190, up to the submission of its tasks (lines 199-238).
ZipRecurse(t) ==
    /\ tasks[t].fn = "process_zip_file" /\ tasks[t].pc = "recurse"
    /\ Depth(tasks[t].call) < MaxDepth
    /\ LET c == Len(calls) + 1
           call == NewCall(fs, dirs, tasks[t].outp, tasks[t].output_dir,
                           tasks[t].args, t, tasks[t].run, Len(tasks) + 1)
       IN  /\ calls' = Append(calls, call)
           /\ tasks' = [tasks EXCEPT ![t].child = c,
                                     ![t].pc = IF call.pc = "invalid"
                                               THEN "rename" ELSE "wait"]
                       \o (IF call.pc = "invalid" THEN <<>>
                           ELSE FileTasks(fs, tasks[t].outp, tasks[t].output_dir,
                                          tasks[t].args, c, tasks[t].run))
    /\ UNCHANGED <<fs, dirs, run, escaped, tree, pool, image, settings>>

\* The rename_processed_file call that ends each converter (lines 87, 117,
\* 177, 193) and the converter's return.
Rename(t) ==
    /\ tasks[t].pc = "rename"
    /\ fs' = RenameProcessed(fs, tasks[t].path)
    /\ tasks' = [tasks EXCEPT ![t] =
            [Ret(t, OnSuccess(tasks[t].fn)) EXCEPT
                !.renamed = Renames(fs, tasks[t].path)]]
    /\ UNCHANGED <<dirs, calls, run, escaped, tree, pool, image, settings>>

\* -------------------------------------------------------------- scheduler
\* Lines 240-249: how the result of one future is counted. An exception the
\* task raised comes out of future.result() and is caught at line 247.
OutcomeNoCatch(result) ==
    IF result = "raise" THEN "escape"
    ELSE IF result = "None" \/ result = "True" THEN "succ"
    ELSE "fail"

Outcome(result) ==
    IF result = "raise" THEN "fail"
    ELSE IF result = "None" \/ result = "True" THEN "succ"
    ELSE "fail"

AllCallsReturned == \A c \in 1..Len(calls) : calls[c].pc \in {"done", "invalid"}

\* __main__ calls process_files_in_directory (line 312): the walk and the
\* submission of every task, lines 199-238.
StartBatch ==
    /\ settings.read
    /\ run < MaxRuns
    /\ AllCallsReturned
    /\ ~escaped
    /\ run' = run + 1
    /\ LET c == Len(calls) + 1
           call == NewCall(fs, dirs, InputRoot, OutputRoot, settings.cfg, 0,
                           run + 1, Len(tasks) + 1)
       IN  /\ calls' = Append(calls, call)
           /\ tasks' = tasks \o
                (IF call.pc = "invalid" THEN <<>>
                 ELSE FileTasks(fs, InputRoot, OutputRoot, settings.cfg, c, run + 1))
    /\ UNCHANGED <<fs, dirs, escaped, tree, pool, image, settings>>

\* One iteration of the loop over the futures, lines 239-249: it waits for
\* the futures in submission order.
Collect(c) ==
    /\ calls[c].pc = "collect"
    /\ calls[c].idx < calls[c].total
    /\ LET t == calls[c].first + calls[c].idx
           o == Outcome(tasks[t].result)
       IN  /\ tasks[t].pc = "done"
           /\ calls' = [calls EXCEPT
                  ![c].idx = IF o = "escape" THEN @ ELSE @ + 1,
                  ![c].succ = IF o = "succ" THEN @ + 1 ELSE @,
                  ![c].fail = IF o = "fail" THEN @ + 1 ELSE @,
                  ![c].pc = IF o = "escape" THEN "aborted" ELSE @]
           /\ escaped' = (escaped \/ o = "escape")
    /\ UNCHANGED <<fs, dirs, tasks, run, tree, pool, image, settings>>

\* The summary of line 251 written without waiting for the futures.
FinishWithoutWaiting(c) ==
    /\ calls[c].pc = "collect"
    /\ calls' = [calls EXCEPT ![c].pc = "done"]
    /\ tasks' = IF calls[c].parent = 0 THEN tasks
                ELSE [tasks EXCEPT ![calls[c].parent].pc = "rename"]
    /\ UNCHANGED <<fs, dirs, run, escaped, tree, pool, image, settings>>

\* The end of the with block and the summary of line 251; a nested call
\* returns into process_zip_file, which goes on to line 193.
Finish(c) ==
    /\ calls[c].pc = "collect"
    /\ calls[c].idx = calls[c].total
    /\ calls' = [calls EXCEPT ![c].pc = "done"]
    /\ tasks' = IF calls[c].parent = 0 THEN tasks
                ELSE [tasks EXCEPT ![calls[c].parent].pc = "rename"]
    /\ UNCHANGED <<fs, dirs, run, escaped, tree, pool, image, settings>>

Next ==
    \/ StartBatch
    \/ \E t \in 1..Len(tasks) : Start(t)
    \/ \E t \in 1..Len(tasks) : PdfOpen(t)
    \/ \E t \in 1..Len(tasks) : PngOpen(t)
    \/ \E t \in 1..Len(tasks) : ZipOpen(t)
    \/ \E t \in 1..Len(tasks) : MkdirCheck(t)
    \/ \E t \in 1..Len(tasks) : MkdirMake(t)
    \/ \E t \in 1..Len(tasks) : PdfPage(t)
    \/ \E t \in 1..Len(tasks) : PngSave(t)
    \/ \E t \in 1..Len(tasks) : HtmlShot(t)
    \/ \E t \in 1..Len(tasks) : HtmlMove(t)
    \/ \E t \in 1..Len(tasks) : HtmlResave(t)
    \/ \E t \in 1..Len(tasks) : ZipExtract(t)
    \/ \E t \in 1..Len(tasks) : ZipRecurse(t)
    \/ \E t \in 1..Len(tasks) : Rename(t)
    \/ \E c \in 1..Len(calls) : Collect(c)
    \/ \E c \in 1..Len(calls) : Finish(c)

Spec == Init /\ [][Next]_vars

\* The batch over the trees without shared directories.
SpecDistinct == InitDistinct /\ [][Next]_vars

\* Threads are scheduled by the operating system: a thread that can take a
\* step eventually takes it.
FairSpec == Spec /\ WF_vars(Next)

\* The batch over trees that include the archive holding an archive of its
\* own base name; its chain of nested calls is followed down to MaxDepth.
SpecDeep == InitDeep /\ [][Next]_vars

\* ------------------------------------------------- the functions on their own
\* The batch variables while a function is examined on its own.
Idle ==
    /\ fs = <<>>
    /\ dirs = DirsOf(fs)
    /\ tasks = <<>>
    /\ calls = <<>>
    /\ run = 0
    /\ escaped = FALSE
    /\ tree = fs
    /\ pool = 1

\* One call of resize_image, lines 59-72.
ResizeImage ==
    /\ image.result.state = "pending"
    /\ image' = [image EXCEPT !.result =
                    resize_image(image.original, image.max_width, image.max_height)]
    /\ UNCHANGED <<fs, dirs, tasks, calls, run, escaped, tree, pool, settings>>

InitResize == Idle /\ image \in Images /\ settings = DefaultSettings

SpecResize == InitResize /\ [][ResizeImage]_vars

\* __main__ reads the numeric settings, lines 271-289.
ReadSettings ==
    /\ ~settings.read
    /\ settings' = [settings EXCEPT !.read = TRUE, !.cfg = ReadConfig(settings.raw)]
    /\ UNCHANGED <<fs, dirs, tasks, calls, run, escaped, tree, pool, image>>

InitSettings == Idle /\ image = NoImage /\ settings \in SettingsFiles

SpecSettings == InitSettings /\ [][ReadSettings]_vars

\* ----------------------------------------------------------------- claims
TaskIds == 1..Len(tasks)
CallIds == 1..Len(calls)

TopLevel(t) == calls[tasks[t].call].parent = 0

\* The tasks a call has counted so far.
Counted(c) == {calls[c].first + i : i \in 0..(calls[c].idx - 1)}

\* The tasks spawned below an archive task, at every nesting level.
RECURSIVE Below(_)
Below(t) ==
    IF tasks[t].child = 0 THEN {}
    ELSE TasksOf(tasks[t].child) \cup
         UNION {Below(u) : u \in TasksOf(tasks[t].child)}

\* The number of artifacts a task is expected to write.
Expected(t) ==
    IF tasks[t].fn = "pdf_to_jpg" THEN tasks[t].doc.pages
    ELSE IF tasks[t].fn = "process_zip_file" THEN 0
    ELSE 1

\* The task ended in an error exit: the source could not be opened, a page
\* or image could not be rendered or written, the archive was not extracted.
Failed(t) ==
    /\ tasks[t].pc = "done"
    /\ IF tasks[t].fn = "png_to_jpg" THEN tasks[t].arts = {}
       ELSE IF tasks[t].fn = "process_zip_file" THEN tasks[t].child = 0
       ELSE tasks[t].result # "True"

\* C1 (as stated): the second run of the batch over the same directories
\* performs no conversion and no rename.
C1_SecondRunDoesNothing ==
    \A t \in TaskIds :
        tasks[t].run = 2 => tasks[t].arts = {} /\ ~tasks[t].renamed

\* C1 (amended): the second run submits a task only for a file of the input
\* tree that the first run discovered and left unmarked; when the first run
\* renamed every source it discovered, the second run submits no task, so it
\* performs no conversion and no rename.
C1_SecondRunRetriesOnlyUnmarked ==
    /\ \A t \in TaskIds :
        (tasks[t].run = 2 /\ TopLevel(t)) =>
            \E u \in TaskIds :
                /\ tasks[u].run = 1 /\ TopLevel(u)
                /\ tasks[u].path = tasks[t].path
                /\ tasks[u].pc = "done" /\ ~tasks[u].renamed
    /\ (\A u \in TaskIds : (tasks[u].run = 1 /\ TopLevel(u)) => tasks[u].renamed)
            => \A t \in TaskIds : tasks[t].run # 2

\* A second run that skipped a renamed source and started on an unmarked one.
C1_Witness ==
    /\ run = 2
    /\ \E u \in TaskIds : tasks[u].run = 1 /\ TopLevel(u) /\ tasks[u].renamed
    /\ \E t \in TaskIds : tasks[t].run = 2 /\ TopLevel(t) /\ tasks[t].pc = "done"
    /\ \E c \in CallIds : calls[c].run = 2 /\ calls[c].parent = 0 /\ calls[c].total = 1

\* C2: a task counted as succeeded has written all its artifacts and its
\* source carries the mark.
C2_SuccessMeansMarked ==
    \A c \in CallIds : \A t \in Counted(c) :
        Outcome(tasks[t].result) = "succ" =>
            /\ tasks[t].renamed
            /\ Cardinality(tasks[t].arts) = Expected(t)

\* The input directory holds valid files and exactly one corrupt file.
OneCorrupt ==
    /\ Cardinality({p \in DOMAIN tree : tree[p].health = "corrupt"}) = 1
    /\ \A p \in DOMAIN tree :
        /\ tree[p].health \in {"ok", "corrupt"}
        /\ DirName(p) = InputRoot
        /\ \A e \in tree[p].entries : e.health = "ok"

\* C3: with N valid files and one corrupt file in one directory the batch
\* reports N successes and one failure.
C3_FailureIsolation ==
    \A c \in CallIds :
        (OneCorrupt /\ calls[c].parent = 0 /\ calls[c].run = 1
            /\ calls[c].pc = "done") =>
                /\ calls[c].fail = 1
                /\ calls[c].succ = calls[c].total - 1

\* C4: the summary of the batch holds one result for every file discovered
\* as convertible, directly or inside an expanded archive, and
\* succeeded + failed = total.
C4_SummaryComplete ==
    \A c \in CallIds :
        (calls[c].parent = 0 /\ calls[c].pc = "done") =>
            /\ calls[c].total =
                 Cardinality({t \in TaskIds : tasks[t].run = calls[c].run})
            /\ calls[c].succ + calls[c].fail = calls[c].total

\* C5: the source of a failed task keeps its unmarked name, and the next run
\* of the batch attempts it again.
C5_UnmarkedOnFailure ==
    \A t \in TaskIds :
        (tasks[t].run = 1 /\ Failed(t)) =>
            /\ ~tasks[t].renamed
            /\ (\E c \in CallIds : calls[c].run = 2 /\ calls[c].pc = "done") =>
                   \E u \in TaskIds :
                       tasks[u].run = 2 /\ tasks[u].path = tasks[t].path

\* C6: within one run no file is turned into two tasks.
C6_OneTaskPerFile ==
    \A t, u \in TaskIds :
        (tasks[t].run = tasks[u].run /\ tasks[t].path = tasks[u].path) => t = u

\* C7: the artifacts of a file F found at relative directory R inside an
\* archive with base name A lie under <output root>/A/R/F.
C7_ArchiveScopedOutput ==
    \A t \in TaskIds :
        LET c == tasks[t].call
            A == StemOf(tasks[calls[c].parent].path)
            R == SubSeq(DirName(tasks[t].path), Len(calls[c].input_dir) + 1,
                        Len(tasks[t].path) - 1)
            F == StemOf(tasks[t].path)
        IN  calls[c].parent # 0 =>
                \A a \in tasks[t].arts :
                    IsPrefix(OutputRoot \o <<A>> \o R \o <<F>>, a)

\* C8: an archive that could not be opened or extracted is counted as a
\* failure, and no task is spawned for its contents.
C8_ArchiveFailureCounted ==
    \A c \in CallIds : \A t \in Counted(c) :
        (tasks[t].fn = "process_zip_file" /\ Failed(t)) =>
            /\ Outcome(tasks[t].result) = "fail"
            /\ Below(t) = {}

\* C9: an archive carries the mark only if it was extracted and every file
\* below it was processed without failure.
C9_ArchiveMarkedOnlyOnSuccess ==
    \A t \in TaskIds :
        (tasks[t].fn = "process_zip_file" /\ tasks[t].renamed) =>
            /\ ~Failed(t)
            /\ \A u \in Below(t) : ~Failed(u)

\* Every call has returned and every run has been made.
BatchesDone ==
    /\ run = MaxRuns
    /\ AllCallsReturned
    /\ \A t \in TaskIds : tasks[t].pc = "done"

\* No exception has left process_files_in_directory, and a call that has
\* returned has run every task it submitted and counted each of them.
FaultBoundary ==
    /\ ~escaped
    /\ \A c \in CallIds :
        calls[c].pc = "done" =>
            /\ \A t \in TasksOf(c) :
                 tasks[t].pc = "done" /\ tasks[t].result # "pending"
            /\ calls[c].succ + calls[c].fail = calls[c].total
            /\ calls[c].fail >=
                 Cardinality({t \in TasksOf(c) : tasks[t].result = "raise"})

\* C10: an exception raised inside a task never leaves
\* process_files_in_directory and never stops a sibling: every submitted
\* task runs to its end and every batch reaches its summary.
C10_SchedulerFaultBoundary == []FaultBoundary /\ <>BatchesDone

\* A task raised, its sibling went on to the end, and the call returned.
C10_Witness ==
    \E c \in CallIds : \E t, u \in TasksOf(c) :
        /\ calls[c].pc = "done"
        /\ tasks[t].result = "raise"
        /\ tasks[u].renamed

\* The tasks that are executing a converter: started, not finished, and not
\* an archive task blocked in its nested call.
Converting == {t \in TaskIds : tasks[t].pc \notin {"queued", "done", "wait"}}

\* C11: at every moment the number of conversion tasks running concurrently,
\* tasks spawned through archive expansion at any depth included, is at most
\* the maximum number of workers.
C11_BoundedParallelism == Cardinality(Converting) <= pool

\* Everything the task is to produce is there: every page of a PDF, the one
\* image of a PNG or of an HTML page (moved and saved again), and for an
\* archive the nested call has returned and every task below it has ended.
Complete(t) ==
    /\ Cardinality(tasks[t].arts) = Expected(t)
    /\ tasks[t].arts \subseteq DOMAIN fs
    /\ tasks[t].fn = "process_zip_file" =>
          /\ tasks[t].child # 0
          /\ calls[tasks[t].child].pc \in {"done", "invalid"}
          /\ \A u \in Below(t) : tasks[u].pc = "done"

\* C12: a task renames its source only when every artifact of the task has
\* been written, and after the rename the task takes no further step.
C12_MarkLast ==
    [][\A t \in TaskIds :
          /\ (~tasks[t].renamed /\ tasks'[t].renamed) => Complete(t)
          /\ tasks[t].renamed => tasks'[t] = tasks[t]]_vars

\* A two-page PDF, an HTML page and the archive that held it were renamed.
C12_Witness ==
    \E t, u, v \in TaskIds :
        /\ tasks[t].fn = "pdf_to_jpg" /\ tasks[t].renamed
        /\ Cardinality(tasks[t].arts) = MaxPages
        /\ tasks[u].fn = "process_zip_file" /\ tasks[u].renamed
        /\ v \in Below(u) /\ tasks[v].fn = "html_to_jpg" /\ tasks[v].renamed

\* The sides of a returned image agree with the original's aspect ratio
\* within one pixel of rounding: the height is within one pixel of what the
\* width calls for, or the width within one pixel of what the height calls
\* for.
AspectKept(original, size) ==
    LET w == original[1]
        h == original[2]
        nw == size[1]
        nh == size[2]
    IN  \/ (nh - 1) * w <= nw * h /\ nw * h <= (nh + 1) * w
        \/ (nw - 1) * h <= nh * w /\ nh * w <= (nw + 1) * h

\* C13: for positive sizes and limits, the image resize_image returns is no
\* wider than max_width, no higher than max_height, no larger than the
\* original in either dimension, and keeps the aspect ratio within one pixel.
C13_ResizeInvariant ==
    image.result.state = "returned" =>
        /\ image.result.size[1] <= image.max_width
        /\ image.result.size[2] <= image.max_height
        /\ image.result.size[1] <= image.original[1]
        /\ image.result.size[2] <= image.original[2]
        /\ AspectKept(image.original, image.result.size)

\* C14: create_output_directory succeeds for every task under every
\* interleaving: no task that has found its output directory absent and
\* goes on to create it ends there because a sibling created it meanwhile.
C14_RaceSafeDirectoryCreation ==
    [][\A t \in TaskIds : tasks[t].pc = "make" => tasks'[t].pc # "done"]_vars

\* An archive task holds its expansion directory from the moment
\* create_output_directory has returned it until its nested call is over.
Owns(t) ==
    /\ tasks[t].fn = "process_zip_file"
    /\ tasks[t].pc \in {"extract", "recurse", "wait"}

\* A task at work reads its source from directory d, or has been given an
\* output directory at or below d by create_output_directory and writes there.
Touches(v, d) ==
    /\ tasks[v].pc \notin {"queued", "done"}
    /\ \/ IsPrefix(d, tasks[v].path)
       \/ /\ tasks[v].pc \notin {"open", "check", "make"}
          /\ IsPrefix(d, tasks[v].outp)

\* C15: while an archive task holds its expansion directory, no task other
\* than the tasks spawned below it reads from or writes into that directory.
C15_ExclusiveExpansionDirectory ==
    \A t \in TaskIds : Owns(t) =>
        \A v \in TaskIds \ ({t} \cup Below(t)) : ~Touches(v, tasks[t].outp)

\* C16: an archive that would expand into the expansion directory of an
\* archive task above it, an output path already expanded, is rejected: no
\* archive task holds the expansion directory of an archive task it was
\* spawned below.
C16_RecursionGuard ==
    \A t \in TaskIds : \A u \in Below(t) :
        Owns(u) => tasks[u].outp # tasks[t].outp

\* C17: the converter of every discovered file, of whatever kind, receives
\* the batch's dpi, quality, max_width and max_height in its parameters of
\* these names (png_to_jpg has no dpi parameter).
C17_UniformParameters ==
    \A t \in TaskIds :
        /\ tasks[t].fn # "png_to_jpg" => tasks[t].args.dpi = settings.cfg.dpi
        /\ tasks[t].args.quality = settings.cfg.quality
        /\ tasks[t].args.max_width = settings.cfg.max_width
        /\ tasks[t].args.max_height = settings.cfg.max_height

\* C18: whatever integers settings.ini holds for quality, max_width and
\* max_height, the values __main__ hands to the conversion tasks satisfy
\* 1 <= quality <= 100, max_width >= 1 and max_height >= 1.
C18_ParametersValidated ==
    settings.read =>
        LET handed == BoundArgs("pdf_to_jpg", settings.cfg)
        IN  /\ 1 <= handed.quality /\ handed.quality <= 100
            /\ handed.max_width >= 1
            /\ handed.max_height >= 1

\* C19: every batch has one call that writes its final summary, a call that
\* has written its summary has no unfinished task, at any nesting depth, and
\* an archive task that has left its nested call (to rename, or ended) has no
\* unfinished task below it.
C19_FanIn ==
    /\ \A r \in 1..run :
          Cardinality({c \in CallIds : calls[c].parent = 0 /\ calls[c].run = r}) = 1
    /\ \A c \in CallIds : calls[c].pc = "done" =>
          \A t \in TasksOf(c) :
              /\ tasks[t].pc = "done"
              /\ \A u \in Below(t) : tasks[u].pc = "done"
    /\ \A t \in TaskIds :
          (tasks[t].child # 0 /\ tasks[t].pc \in {"rename", "done"}) =>
              /\ calls[tasks[t].child].pc \in {"done", "invalid"}
              /\ \A u \in Below(t) : tasks[u].pc = "done"

\* A batch wrote its summary after an archive, an archive nested in it and
\* the file of the nested archive were all done and renamed.
C19_Witness ==
    \E c \in CallIds : \E t \in TasksOf(c) : \E u \in Below(t) : \E v \in Below(u) :
        /\ calls[c].parent = 0 /\ calls[c].pc = "done"
        /\ tasks[t].renamed /\ tasks[u].renamed /\ tasks[v].renamed

\* A queued task is not kept from a worker by tasks of other calls: its
\* call's executor has a free worker, or a task of its own call holds one.
NoStarvation ==
    \A t \in TaskIds : tasks[t].pc = "queued" =>
        \/ Cardinality(Running(tasks[t].call)) < pool
        \/ \E u \in TasksOf(tasks[t].call) :
              tasks[u].pc \notin {"queued", "done"}

\* C20: with any number of workers from one up and archives nested in
\* archives, the batch never comes to a stop before its end, an archive task
\* blocked in its nested call never keeps the tasks of its contents from a
\* worker, and every submitted task completes and every batch reports.
C20_DeadlockFreedom ==
    /\ [](NoStarvation /\ (BatchesDone \/ ENABLED Next))
    /\ <>[]BatchesDone

\* With executors of one worker, an archive and the archive nested in it are
\* both blocked in their nested calls while the file of the inner one runs.
C20_Witness ==
    \E t \in TaskIds : \E u \in Below(t) : \E v \in Below(u) :
        /\ pool = 1
        /\ tasks[t].pc = "wait" /\ tasks[u].pc = "wait"
        /\ tasks[v].pc \notin {"queued", "done"}

====
